---- MODULE Spec2Model ----
(***************************************************************************)
(* Root finders of ZOF_Project/ZOF_CLI.py (bisection, regula_falsi,        *)
(* secant, newton_raphson, fixed_point_iteration, modified_secant) as a    *)
(* state machine, one step per loop pass.                                  *)
(*                                                                         *)
(* Numbers are Python floats, i.e. IEEE-754 binary64 values, computed with *)
(* round-to-nearest-even exactly as CPython computes them.  A magnitude is *)
(* an unbounded natural number kept as a little-endian sequence of 15-bit  *)
(* limbs, because the integers of the model checker are 32 bits wide and a *)
(* binary64 significand has 53 bits.                                       *)
(***************************************************************************)
EXTENDS Integers, Sequences, FiniteSets, TLC

(***************************************************************************)
(* Natural numbers of any size: <<l1, ..., ln>> is l1 + l2*BASE + ...,     *)
(* with ln # 0; <<>> is zero.                                              *)
(***************************************************************************)
BASE == 2^15
LIMB_BITS == 15

Max(p, j) == IF p >= j THEN p ELSE j
Min(p, j) == IF p <= j THEN p ELSE j

BLimb(u, p) == IF p <= Len(u) THEN u[p] ELSE 0

\* u without its high zero limbs
BStrip(u) ==
  IF \A p \in 1..Len(u) : u[p] = 0 THEN <<>>
  ELSE SubSeq(u, 1, CHOOSE p \in 1..Len(u) :
                      u[p] # 0 /\ \A j \in (p + 1)..Len(u) : u[j] = 0)

\* One limb of a sum, a difference or a product by a small number, from the raw
\* value at that limb: <<limbs, carry out>>.  Ranges of limbs are worked by
\* halves so that the depth of the evaluation grows with the logarithm of the
\* length.
BCarry(raw) ==
  IF raw < 0 THEN <<<<raw + BASE>>, 1>> ELSE <<<<raw % BASE>>, raw \div BASE>>

BRaw(op, u, v, k, p, cin) ==
  CASE op = "add" -> BLimb(u, p) + BLimb(v, p) + cin
    [] op = "sub" -> BLimb(u, p) - BLimb(v, p) - cin
    [] op = "mul" -> BLimb(u, p) * k + cin

BCat(L, H) == <<L[1] \o H[1], H[2]>>

RECURSIVE BChain(_, _, _, _, _, _, _)
BChainHigh(op, u, v, k, mid, hi, L) == BCat(L, BChain(op, u, v, k, mid + 1, hi, L[2]))

\* limbs lo..hi of the result with carry (borrow) cin into limb lo
BChain(op, u, v, k, lo, hi, cin) ==
  IF lo = hi THEN BCarry(BRaw(op, u, v, k, lo, cin))
  ELSE BChainHigh(op, u, v, k, (lo + hi) \div 2, hi,
                  BChain(op, u, v, k, lo, (lo + hi) \div 2, cin))

BWithCarry(r) == IF r[2] = 0 THEN r[1] ELSE Append(r[1], r[2])

BAdd(u, v) ==
  IF u = <<>> THEN v
  ELSE IF v = <<>> THEN u
  ELSE BWithCarry(BChain("add", u, v, 0, 1, Max(Len(u), Len(v)), 0))

\* u - v for u >= v
BSub(u, v) ==
  IF v = <<>> THEN u
  ELSE BStrip(BChain("sub", u, v, 0, 1, Len(u), 0)[1])

\* u * k for 0 <= k < BASE
BMulSmall(u, k) ==
  IF k = 0 \/ u = <<>> THEN <<>>
  ELSE BWithCarry(BChain("mul", u, <<>>, k, 1, Len(u), 0))

\* -1, 0, 1 as u < v, u = v, u > v
BCmp(u, v) ==
  IF Len(u) < Len(v) THEN -1
  ELSE IF Len(u) > Len(v) THEN 1
  ELSE IF u = v THEN 0
  ELSE LET t == CHOOSE p \in 1..Len(u) :
                  u[p] # v[p] /\ \A j \in (p + 1)..Len(u) : u[j] = v[j]
       IN  IF u[t] < v[t] THEN -1 ELSE 1

BZeros(n) == [p \in 1..n |-> 0]

\* u * BASE^n
BShiftLimbs(u, n) == IF u = <<>> THEN u ELSE BZeros(n) \o u

\* u times the limbs lo..hi of v, each in its place
RECURSIVE BMulRange(_, _, _, _)
BMulRange(u, v, lo, hi) ==
  IF lo = hi THEN BShiftLimbs(BMulSmall(u, v[lo]), lo - 1)
  ELSE BAdd(BMulRange(u, v, lo, (lo + hi) \div 2),
            BMulRange(u, v, (lo + hi) \div 2 + 1, hi))

BMul(u, v) == IF u = <<>> \/ v = <<>> THEN <<>> ELSE BMulRange(u, v, 1, Len(v))

\* u * 2^k
BShl(u, k) == BShiftLimbs(BMulSmall(u, 2^(k % LIMB_BITS)), k \div LIMB_BITS)

\* floor(u / 2^k)
BShr(u, k) ==
  LET n == k \div LIMB_BITS
      r == k % LIMB_BITS
      len == Len(u) - n
  IN  IF len <= 0 THEN <<>>
      ELSE BStrip([p \in 1..len |->
                     (u[p + n] \div 2^r)
                     + (BLimb(u, p + n + 1) % 2^r) * 2^(LIMB_BITS - r)])

\* number of binary digits of 0 <= k < BASE
SmallBitLen(k) ==
  IF k = 0 THEN 0 ELSE CHOOSE n \in 1..LIMB_BITS : 2^(n - 1) <= k /\ k < 2^n

\* number of binary digits of u
BBitLen(u) ==
  IF u = <<>> THEN 0
  ELSE LIMB_BITS * (Len(u) - 1) + SmallBitLen(u[Len(u)])

\* bit k of u (bit 0 is the lowest)
BBit(u, k) == (BLimb(u, k \div LIMB_BITS + 1) \div 2^(k % LIMB_BITS)) % 2

\* whether the k lowest bits of u are all zero
BLowZero(u, k) ==
  /\ \A p \in 1..(k \div LIMB_BITS) : BLimb(u, p) = 0
  /\ BLimb(u, k \div LIMB_BITS + 1) % 2^(k % LIMB_BITS) = 0

\* number of trailing zero bits of 0 < k < BASE
SmallTrailingZeros(k) ==
  CHOOSE n \in 0..(LIMB_BITS - 1) : k % 2^n = 0 /\ k % 2^(n + 1) # 0

\* number of trailing zero bits of u # 0
BTrailingZeros(u) ==
  LET t == CHOOSE p \in 1..Len(u) : u[p] # 0 /\ \A j \in 1..(p - 1) : u[j] = 0
  IN  LIMB_BITS * (t - 1) + SmallTrailingZeros(u[t])

\* the largest digit d < BASE with d * v <= r, found bit by bit from the top
RECURSIVE BDigit(_, _, _, _)
BDigit(r, v, d, j) ==
  IF j < 0 THEN d
  ELSE IF BCmp(BMulSmall(v, d + 2^j), r) <= 0 THEN BDigit(r, v, d + 2^j, j - 1)
  ELSE BDigit(r, v, d, j - 1)

\* Long division by v # 0: the limbs hi down to lo of u are brought down onto
\* the running remainder r; <<quotient limbs lo..hi, remainder>>.
BDivDigit(v, r1, d) == <<<<d>>, BSub(r1, BMulSmall(v, d))>>
BDivLimb(v, r1) == BDivDigit(v, r1, BDigit(r1, v, 0, LIMB_BITS - 1))
BDivCat(U, L) == <<L[1] \o U[1], L[2]>>

RECURSIVE BDivRange(_, _, _, _, _)
\* the high limbs U are divided before the low ones, whose division starts from
\* the remainder U[2] that the high ones leave
BDivLow(u, v, mid, lo, U) ==
  IF U[1] = <<>> THEN U ELSE BDivCat(U, BDivRange(u, v, mid, lo, U[2]))

BDivRange(u, v, hi, lo, r) ==
  IF hi = lo THEN BDivLimb(v, BStrip(<<u[lo]>> \o r))
  ELSE BDivLow(u, v, (lo + hi) \div 2, lo,
               BDivRange(u, v, hi, (lo + hi) \div 2 + 1, r))

BDivStrip(qr) == <<BStrip(qr[1]), qr[2]>>

\* <<floor(u / v), u mod v>> for v # 0
BDivMod(u, v) ==
  IF u = <<>> THEN <<<<>>, <<>>>>
  ELSE BDivStrip(BDivRange(u, v, Len(u), 1, <<>>))

\* a natural number below 2^31 as a limb sequence
BFromNat(n) == BStrip(<<n % BASE, (n \div BASE) % BASE, n \div (BASE * BASE)>>)

(***************************************************************************)
(* Python floats.  A value is a record                                     *)
(*   c  : "fin" (finite), "inf" or "nan"                                   *)
(*   s  : the sign bit                                                     *)
(*   m,e: a finite value is (-1)^s * m * 2^e, m odd (or m = 0, e = 0)      *)
(*   np : TRUE when the object is a numpy.float64 (what an expression      *)
(*        using np returns) and FALSE when it is a built-in float; the two *)
(*        differ in one place, division by zero.                           *)
(***************************************************************************)
MANT_BITS == 53
MIN_EXP == -1074
MAX_EXP == 1024

FZero(s, np) == [c |-> "fin", s |-> s, m |-> <<>>, e |-> 0, np |-> np]
FInf(s, np) == [c |-> "inf", s |-> s, m |-> <<>>, e |-> 0, np |-> np]
FNaN(np) == [c |-> "nan", s |-> 0, m |-> <<>>, e |-> 0, np |-> np]

IsNaN(x) == x.c = "nan"
IsInf(x) == x.c = "inf"
IsFinite(x) == x.c = "fin"
IsZero(x) == x.c = "fin" /\ x.m = <<>>

Xor(s, t) == IF s = t THEN 0 ELSE 1
\* whether M / 2^k, whose integer part is q, rounds up: above the half, or at
\* the half with q odd
RoundUp(M, k, q) ==
  /\ k > 0
  /\ BBit(M, k - 1) = 1
  /\ (~BLowZero(M, k - 1) \/ BBit(q, 0) = 1)

\* M / 2^k rounded to the nearest integer, ties to even; q is floor(M / 2^k)
BRoundShr(M, k, q) == IF RoundUp(M, k, q) THEN BAdd(q, <<1>>) ELSE q

\* (-1)^s * q1 * 2^e1 with the significand made odd (tz: its trailing zeros)
FPack(s, q1, e1, tz, np) ==
  [c |-> "fin", s |-> s, m |-> BShr(q1, tz), e |-> e1 + tz, np |-> np]

\* (-1)^s * q1 * 2^e1 for q1 of at most 53 bits: zero, an infinity past the
\* largest exponent, or the finite value
FNormal(s, q1, e1, np) ==
  IF q1 = <<>> THEN FZero(s, np)
  ELSE IF BBitLen(q1) + e1 > MAX_EXP THEN FInf(s, np)
  ELSE FPack(s, q1, e1, BTrailingZeros(q1), np)

\* (-1)^s * M * 2^E with the k lowest bits of M rounded away
FRoundBits(s, M, E, k, np) ==
  FNormal(s, BRoundShr(M, k, IF k <= 0 THEN M ELSE BShr(M, k)),
          IF k <= 0 THEN E ELSE E + k, np)

\* The binary64 value nearest to (-1)^s * M * 2^E, ties to even; the result
\* overflows to an infinity and underflows gradually to zero.
FRound(s, M, E, np) ==
  IF M = <<>> THEN FZero(s, np)
  ELSE FRoundBits(s, M, E, Max(E + BBitLen(M) - MANT_BITS, MIN_EXP) - E, np)

\* (-1)^s * (2 * quotient + sticky) * 2^E for qr = <<quotient, remainder>>: a
\* non-zero remainder is kept as a sticky lowest bit
FFromQuotient(s, qr, E, np) ==
  FRound(s, BAdd(BShl(qr[1], 1), IF qr[2] = <<>> THEN <<>> ELSE <<1>>), E, np)

\* (-1)^s * (n / d) * 2^E with the quotient of n * 2^k by d
FFromScaled(s, n, d, E, k, np) ==
  FFromQuotient(s, BDivMod(BShl(n, k), d), E - k - 1, np)

\* The binary64 value nearest to (-1)^s * (n / d) * 2^E, for naturals n and
\* d # 0.  The quotient is taken to at least 55 bits.
FFromRatio(s, n, d, E, np) ==
  IF n = <<>> THEN FZero(s, np)
  ELSE FFromScaled(s, n, d, E, Max(0, MANT_BITS + 2 + BBitLen(d) - BBitLen(n)), np)

\* 10^k, by halving k
RECURSIVE BPow10(_)
BPow10(k) ==
  IF k <= 4 THEN <<10^k>>
  ELSE BMul(BPow10(k \div 2), BPow10(k - k \div 2))

\* the natural number written with the decimal digits lo..hi of ds
RECURSIVE BDigitsRange(_, _, _)
BDigitsRange(ds, lo, hi) ==
  IF lo = hi THEN BFromNat(ds[lo])
  ELSE BAdd(BMul(BDigitsRange(ds, lo, (lo + hi) \div 2), BPow10(hi - (lo + hi) \div 2)),
            BDigitsRange(ds, (lo + hi) \div 2 + 1, hi))

BFromDigits(ds) == BDigitsRange(ds, 1, Len(ds))

\* float(text) for the decimal text "<ds>e<k>": the binary64 value nearest to
\* ds * 10^k (type=float of the command line, float(request.form[...]))
Lit(ds, k) ==
  IF k >= 0 THEN FRound(0, BMul(BFromDigits(ds), BPow10(k)), 0, FALSE)
  ELSE FFromRatio(0, BFromDigits(ds), BPow10(-k), 0, FALSE)

\* float(n) of a Python int n, as in 3*x or x - 2
FromInt(n) == FRound(IF n < 0 THEN 1 ELSE 0, BFromNat(IF n < 0 THEN -n ELSE n), 0, FALSE)

\* numpy.float64(x)
AsNp(x) == [x EXCEPT !.np = TRUE]

FNeg(x) == IF IsNaN(x) THEN x ELSE [x EXCEPT !.s = 1 - x.s]

\* abs(x)
FAbs(x) == [x EXCEPT !.s = 0]

\* -1, 0, 1 as |x| < |y|, |x| = |y|, |x| > |y|, for x and y not NaN
MagCmp(x, y) ==
  IF IsInf(x) THEN (IF IsInf(y) THEN 0 ELSE 1)
  ELSE IF IsInf(y) THEN -1
  ELSE IF IsZero(x) THEN (IF IsZero(y) THEN 0 ELSE -1)
  ELSE IF IsZero(y) THEN 1
  ELSE LET tx == x.e + BBitLen(x.m)
           ty == y.e + BBitLen(y.m)
           e == Min(x.e, y.e)
       IN  IF tx < ty THEN -1
           ELSE IF tx > ty THEN 1
           ELSE BCmp(BShl(x.m, x.e - e), BShl(y.m, y.e - e))

\* (-1)^s * (Mx + My) * 2^e, or (-1)^s * (Mx - My) * 2^e when the signs differ
FAddAligned(s, same, Mx, My, e, np) ==
  FRound(s, IF same THEN BAdd(Mx, My) ELSE BSub(Mx, My), e, np)

\* x + y for finite non-zero x and y with |x| >= |y|, x shifted left by k bits.
\* When y lies wholly below the bits that decide the rounding of x (far), it is
\* kept as a sticky bit.
FAddShifted(x, y, far, k, np) ==
  FAddAligned(x.s, x.s = y.s, BShl(x.m, k),
              IF far THEN <<1>> ELSE BShl(y.m, y.e - (x.e - k)), x.e - k, np)

FAddFar(x, y, far, np) ==
  FAddShifted(x, y, far,
              IF far THEN MANT_BITS + 4 - BBitLen(x.m) ELSE x.e - Min(x.e, y.e), np)

FAddOrdered(x, y, np) ==
  FAddFar(x, y, (x.e + BBitLen(x.m)) - (y.e + BBitLen(y.m)) > MANT_BITS + 3, np)

\* x + y for finite non-zero x and y; cmp compares their magnitudes
FAddFinite(x, y, cmp, np) ==
  IF cmp = 0 /\ x.s # y.s THEN FZero(0, np)
  ELSE FAddOrdered(IF cmp >= 0 THEN x ELSE y, IF cmp >= 0 THEN y ELSE x, np)

\* x + y
FAdd(x, y) ==
  LET np == x.np \/ y.np
  IN  IF IsNaN(x) \/ IsNaN(y) THEN FNaN(np)
      ELSE IF IsInf(x) THEN (IF IsInf(y) /\ x.s # y.s THEN FNaN(np) ELSE FInf(x.s, np))
      ELSE IF IsInf(y) THEN FInf(y.s, np)
      ELSE IF IsZero(x) /\ IsZero(y) THEN FZero(IF x.s = 1 /\ y.s = 1 THEN 1 ELSE 0, np)
      ELSE IF IsZero(x) THEN [y EXCEPT !.np = np]
      ELSE IF IsZero(y) THEN [x EXCEPT !.np = np]
      ELSE FAddFinite(x, y, MagCmp(x, y), np)

\* x - y
FSub(x, y) == FAdd(x, FNeg(y))

\* x * y
FMul(x, y) ==
  LET np == x.np \/ y.np
      s == Xor(x.s, y.s)
  IN  IF IsNaN(x) \/ IsNaN(y) THEN FNaN(np)
      ELSE IF IsInf(x) \/ IsInf(y)
           THEN (IF IsZero(x) \/ IsZero(y) THEN FNaN(np) ELSE FInf(s, np))
      ELSE FRound(s, BMul(x.m, y.m), x.e + y.e, np)

\* x / y raises ZeroDivisionError: a built-in float divided by a built-in zero.
\* With a numpy.float64 on either side the division is numpy's, which warns and
\* returns an infinity or a NaN.
DivRaises(x, y) == IsZero(y) /\ ~x.np /\ ~y.np

\* x / y when it does not raise
FDiv(x, y) ==
  LET np == x.np \/ y.np
      s == Xor(x.s, y.s)
  IN  IF IsNaN(x) \/ IsNaN(y) THEN FNaN(np)
      ELSE IF IsInf(x) THEN (IF IsInf(y) THEN FNaN(np) ELSE FInf(s, np))
      ELSE IF IsInf(y) THEN FZero(s, np)
      ELSE IF IsZero(y) THEN (IF IsZero(x) THEN FNaN(np) ELSE FInf(s, np))
      ELSE FFromRatio(s, x.m, y.m, x.e - y.e, np)

FSign(x) == IF IsZero(x) THEN 0 ELSE IF x.s = 1 THEN -1 ELSE 1

\* -1, 0, 1 as x < y, x == y, x > y, for x and y not NaN
FCmp(x, y) ==
  IF FSign(x) # FSign(y) THEN (IF FSign(x) < FSign(y) THEN -1 ELSE 1)
  ELSE IF FSign(x) = 0 THEN 0
  ELSE FSign(x) * MagCmp(x, y)

\* x < y, x >= y, x == y: every comparison with a NaN is False
FLt(x, y) == ~IsNaN(x) /\ ~IsNaN(y) /\ FCmp(x, y) < 0
FGe(x, y) == ~IsNaN(x) /\ ~IsNaN(y) /\ FCmp(x, y) >= 0
FEq(x, y) == ~IsNaN(x) /\ ~IsNaN(y) /\ FCmp(x, y) = 0

\* x <= y
FLe(x, y) == ~IsNaN(x) /\ ~IsNaN(y) /\ FCmp(x, y) <= 0

(***************************************************************************)
(* get_function: the callable of an expression text, eval(expression) with *)
(* x bound to the argument.  The expressions are the ones below; Parse is  *)
(* the syntax tree Python builds for each and Eval evaluates a tree        *)
(* operation by operation, as the interpreter does.                        *)
(***************************************************************************)
FExprs == {"x*x - 2", "3*x - 1", "x - 0.2", "1e-162*(x - 1)", "x*x*x - x - 2",
           "np.square(x) - 2"}
DfExprs == {"2*x", "3"}
GExprs == {"x/2 + 1", "x*x"}

X == [op |-> "x"]
Num(v) == [op |-> "num", v |-> v]
BinOp(l, op, r) == [op |-> op, l |-> l, r |-> r]
NpSquare(l) == [op |-> "np.square", l |-> l]

\* the float literals 0.2 and 1e-162
Lit02 == Lit(<<2>>, -1)
Lit1e162 == Lit(<<1>>, -162)

Parse(expression) ==
  CASE expression = "x*x - 2" -> BinOp(BinOp(X, "*", X), "-", Num(FromInt(2)))
    [] expression = "3*x - 1" -> BinOp(BinOp(Num(FromInt(3)), "*", X), "-", Num(FromInt(1)))
    [] expression = "x - 0.2" -> BinOp(X, "-", Num(Lit02))
    [] expression = "1e-162*(x - 1)" ->
         BinOp(Num(Lit1e162), "*", BinOp(X, "-", Num(FromInt(1))))
    [] expression = "x*x*x - x - 2" ->
         BinOp(BinOp(BinOp(BinOp(X, "*", X), "*", X), "-", X), "-", Num(FromInt(2)))
    [] expression = "np.square(x) - 2" -> BinOp(NpSquare(X), "-", Num(FromInt(2)))
    [] expression = "2*x" -> BinOp(Num(FromInt(2)), "*", X)
    [] expression = "3" -> Num(FromInt(3))
    [] expression = "x/2 + 1" -> BinOp(BinOp(X, "/", Num(FromInt(2))), "+", Num(FromInt(1)))
    [] expression = "x*x" -> BinOp(X, "*", X)

\* l op r of two values; the only divisor of the expressions is the literal 2
Apply(l, op, r) ==
  CASE op = "+" -> FAdd(l, r)
    [] op = "-" -> FSub(l, r)
    [] op = "*" -> FMul(l, r)
    [] op = "/" -> FDiv(l, r)

\* numpy.square(l)
EvalNpSquare(l) == AsNp(FMul(l, l))

RECURSIVE Eval(_, _)
Eval(t, x) ==
  CASE t.op = "x" -> x
    [] t.op = "num" -> t.v
    [] t.op = "np.square" -> EvalNpSquare(Eval(t.l, x))
    [] OTHER -> Apply(Eval(t.l, x), t.op, Eval(t.r, x))

get_function(expression, x) == Eval(Parse(expression), x)

(***************************************************************************)
(* The call: one invocation of one of the six functions.                   *)
(***************************************************************************)
MaxIter == 3

Bracketing == {"bisection", "regula_falsi"}

\* a name with no value: an unassigned local, or None in a returned tuple
None == [c |-> "None", s |-> 0, m |-> <<>>, e |-> 0, np |-> FALSE]

Zero == FromInt(0)
Half == Lit(<<5>>, -1)

\* tol: the default 1e-6 and two others
Tols == {Lit(<<1>>, -6), Lit(<<5>>, -1), Lit(<<1>>, -200)}
\* delta: the default 1e-6 and one other
Deltas == {Lit(<<1>>, -6), Lit(<<5>>, -1)}

BracketPairs ==
  {<<FromInt(0), FromInt(1)>>, <<FromInt(0), FromInt(2)>>,
   <<FromInt(0), FromInt(4)>>, <<FromInt(1), FromInt(2)>>,
   <<Lit(<<1>>, -1), Lit(<<4>>, -1)>>, <<Lit(<<2>>, -1), FromInt(1)>>,
   <<Lit(<<1,5,2,1,3,7,9,7,0,6,8,0,3,6,3,1,9>>, -16),
     Lit(<<1,5,2,1,3,7,9,7,0,6,8,0,4,5,6,7,8>>, -16)>>}
SecantPairs ==
  {<<FromInt(-1), FromInt(1)>>, <<FromInt(0), FromInt(1)>>,
   <<FromInt(1), FromInt(2)>>, <<FromInt(1), FromInt(1)>>}
Guesses == {FromInt(0), FromInt(1), FromInt(2)}
FixedPointGuesses == Guesses \cup {Lit(<<1>>, 200)}
OpenFs == {"x*x - 2", "3*x - 1", "np.square(x) - 2"}

BracketArgs ==
  {[method |-> m, f |-> e, aux |-> "None", p1 |-> p[1], p2 |-> p[2],
    delta |-> None, tol |-> t, max_iter |-> n] :
     e \in FExprs, p \in BracketPairs, t \in Tols, n \in 0..MaxIter,
     m \in Bracketing}
SecantArgs ==
  {[method |-> "secant", f |-> e, aux |-> "None", p1 |-> p[1], p2 |-> p[2],
    delta |-> None, tol |-> t, max_iter |-> n] :
     e \in OpenFs, p \in SecantPairs, t \in Tols, n \in 0..MaxIter}
NewtonArgs ==
  {[method |-> "newton_raphson", f |-> e, aux |-> d, p1 |-> x, p2 |-> None,
    delta |-> None, tol |-> t, max_iter |-> n] :
     e \in OpenFs, d \in DfExprs, x \in Guesses, t \in Tols, n \in 0..MaxIter}
FixedPointArgs ==
  {[method |-> "fixed_point", f |-> "None", aux |-> e, p1 |-> x, p2 |-> None,
    delta |-> None, tol |-> t, max_iter |-> n] :
     e \in GExprs, x \in FixedPointGuesses, t \in Tols, n \in 0..MaxIter}
ModifiedSecantArgs ==
  {[method |-> "modified_secant", f |-> e, aux |-> "None", p1 |-> x, p2 |-> None,
    delta |-> d, tol |-> t, max_iter |-> n] :
     e \in OpenFs, x \in Guesses, d \in Deltas, t \in Tols, n \in 0..MaxIter}

Calls ==
  BracketArgs \cup SecantArgs
    \cup NewtonArgs \cup FixedPointArgs \cup ModifiedSecantArgs

VARIABLES
  args,        \* the arguments of the call, as the caller passed them
  a, b, c,     \* locals of bisection and regula_falsi
  x0, x1, x2,  \* locals of the other four (x2: secant only)
  i,           \* the loop index of the next pass (passes completed)
  iterations,  \* the log: records <<index, estimate, value, error>>
  pc,          \* "call", "loop", "converged", "exhausted", "faulted", "rejected"
  result,      \* what the call returned
  fault        \* the exception the call raised, "" if none

vars == <<args, a, b, c, x0, x1, x2, i, iterations, pc, result, fault>>

f(x) == get_function(args.f, x)
df(x) == get_function(args.aux, x)
g(x) == get_function(args.aux, x)
tol == args.tol
max_iter == args.max_iter
delta == args.delta

Pending == [kind |-> "pending", root |-> None, error |-> None, log |-> <<>>]
\* return None, None, None
NoneNoneNone == [kind |-> "none", root |-> None, error |-> None, log |-> <<>>]
\* return root, error, iterations
Tuple(root, error, log) == [kind |-> "tuple", root |-> root, error |-> error, log |-> log]

Init ==
  /\ args \in Calls
  /\ a = (IF args.method \in Bracketing THEN args.p1 ELSE None)
  /\ b = (IF args.method \in Bracketing THEN args.p2 ELSE None)
  /\ c = None
  /\ x0 = (IF args.method \in Bracketing THEN None ELSE args.p1)
  /\ x1 = (IF args.method = "secant" THEN args.p2 ELSE None)
  /\ x2 = None
  /\ i = 0
  /\ iterations = <<>>
  /\ pc = (IF args.method \in Bracketing THEN "call" ELSE "loop")
  /\ result = Pending
  /\ fault = ""

Raise(exc) ==
  /\ pc' = "faulted"
  /\ fault' = exc
  /\ UNCHANGED <<args, a, b, c, x0, x1, x2, i, iterations, result>>

\* NoBracket with the seeded fault of a strict test, f(a) * f(b) > 0
NoBracketStrict(fa, fb) == FLt(Zero, FMul(fa, fb))

\* the sign test of bisection and regula_falsi: f(a) * f(b) >= 0
NoBracket(fa, fb) == FGe(FMul(fa, fb), Zero)

\* Stop with the seeded fault of a halved tolerance, abs(fx) < tol / 2
StopHalf(fx) == FLt(FAbs(fx), FMul(Half, tol))

\* the stop test on a residual: abs(fx) < tol
Stop(fx) == FLt(FAbs(fx), tol)

\* if f(a) * f(c) < 0
SignChange(fa, fc) == FLt(FMul(fa, fc), Zero)

\* if f(a) * f(b) >= 0: print(...); return None, None, None -- else iterations = []
BracketCheck ==
  /\ pc = "call"
  /\ IF NoBracket(f(a), f(b))
     THEN /\ pc' = "rejected"
          /\ result' = NoneNoneNone
          /\ UNCHANGED iterations
     ELSE /\ pc' = "loop"
          /\ iterations' = <<>>
          /\ UNCHANGED result
  /\ UNCHANGED <<args, a, b, c, x0, x1, x2, i, fault>>

\* the check at the top of bisection
BisectionCheck ==
  /\ args.method = "bisection"
  /\ BracketCheck

\* the check at the top of regula_falsi
RegulaFalsiCheck ==
  /\ args.method = "regula_falsi"
  /\ BracketCheck

\* Midpoint with the seeded fault of a missing parenthesis, c = a + b / 2
MidpointPrecedence(lo, hi) == FAdd(lo, FDiv(hi, FromInt(2)))

\* c = (a + b) / 2
Midpoint(lo, hi) == FDiv(FAdd(lo, hi), FromInt(2))

\* iterations.append([i+1, c, fc, abs(b - a)]) and what follows it in a pass of
\* bisection and regula_falsi
BracketRecord(cc, fc, width) ==
  LET log == Append(iterations, <<i + 1, cc, fc, width>>)
  IN  /\ c' = cc
      /\ iterations' = log
      /\ IF Stop(fc)
         THEN /\ pc' = "converged"
              /\ result' = Tuple(cc, width, log)
              /\ UNCHANGED <<a, b, i>>
         ELSE /\ IF SignChange(f(a), fc)
                 THEN b' = cc /\ a' = a
                 ELSE a' = cc /\ b' = b
              /\ i' = i + 1
              /\ UNCHANGED <<pc, result>>
      /\ UNCHANGED <<args, x0, x1, x2, fault>>

\* the rest of a pass of bisection and regula_falsi once c is computed
BracketStep(cc) == BracketRecord(cc, f(cc), FAbs(FSub(b, a)))

\* BisectionPass with the seeded fault of a loop that runs one pass too many
BisectionPassOffByOne ==
  /\ pc = "loop"
  /\ args.method = "bisection"
  /\ i <= max_iter
  /\ BracketStep(Midpoint(a, b))

\* one pass of the loop of bisection
BisectionPass ==
  /\ pc = "loop"
  /\ args.method = "bisection"
  /\ i < max_iter
  /\ BracketStep(Midpoint(a, b))

\* num / den, the division of a pass: it raises, or the pass goes on with the
\* quotient
RegulaFalsiDivide(num, den) ==
  IF DivRaises(num, den) THEN Raise("ZeroDivisionError")
  ELSE BracketStep(FDiv(num, den))

\* c = (a * f(b) - b * f(a)) / (f(b) - f(a))
RegulaFalsiPoint(fa, fb) ==
  RegulaFalsiDivide(FSub(FMul(a, fb), FMul(b, fa)), FSub(fb, fa))

\* one pass of the loop of regula_falsi
RegulaFalsiPass ==
  /\ pc = "loop"
  /\ args.method = "regula_falsi"
  /\ i < max_iter
  /\ RegulaFalsiPoint(f(a), f(b))

\* BracketReturn with the seeded fault of reporting non-convergence as absence,
\* return None, None, None
BracketReturnAbsent ==
  /\ pc = "loop"
  /\ i >= max_iter
  /\ pc' = "exhausted"
  /\ result' = NoneNoneNone
  /\ UNCHANGED <<args, a, b, c, x0, x1, x2, i, iterations, fault>>

\* the return after the loop of bisection and regula_falsi; c is unbound when
\* the loop body never ran
BracketReturn ==
  /\ pc = "loop"
  /\ i >= max_iter
  /\ IF c = None THEN Raise("UnboundLocalError")
     ELSE /\ pc' = "exhausted"
          /\ result' = Tuple(c, FAbs(FSub(b, a)), iterations)
          /\ UNCHANGED <<args, a, b, c, x0, x1, x2, i, iterations, fault>>

BisectionReturn ==
  /\ args.method = "bisection"
  /\ BracketReturn

RegulaFalsiReturn ==
  /\ args.method = "regula_falsi"
  /\ BracketReturn

\* iterations.append([i+1, x2, f(x2), abs(x2 - x1)]) and what follows it in a
\* pass of secant
SecantRecord(new, fx, step) ==
  LET log == Append(iterations, <<i + 1, new, fx, step>>)
  IN  /\ x2' = new
      /\ iterations' = log
      /\ IF Stop(fx)
         THEN /\ pc' = "converged"
              /\ result' = Tuple(new, step, log)
              /\ UNCHANGED <<x0, x1, i>>
         ELSE /\ x0' = x1
              /\ x1' = new
              /\ i' = i + 1
              /\ UNCHANGED <<pc, result>>
      /\ UNCHANGED <<args, a, b, c, fault>>

SecantStep(new) == SecantRecord(new, f(new), FAbs(FSub(new, x1)))

SecantDivide(num, den) ==
  IF DivRaises(num, den) THEN Raise("ZeroDivisionError")
  ELSE SecantStep(FSub(x1, FDiv(num, den)))

\* x2 = x1 - f(x1) * (x1 - x0) / (f(x1) - f(x0))
SecantPoint(fx1, fx0) == SecantDivide(FMul(fx1, FSub(x1, x0)), FSub(fx1, fx0))

\* one pass of the loop of secant
SecantPass ==
  /\ pc = "loop"
  /\ args.method = "secant"
  /\ i < max_iter
  /\ SecantPoint(f(x1), f(x0))

\* return x2, abs(x2 - x1), iterations
SecantReturn ==
  /\ pc = "loop"
  /\ args.method = "secant"
  /\ i >= max_iter
  /\ IF x2 = None THEN Raise("UnboundLocalError")
     ELSE /\ pc' = "exhausted"
          /\ result' = Tuple(x2, FAbs(FSub(x2, x1)), iterations)
          /\ UNCHANGED <<args, a, b, c, x0, x1, x2, i, iterations, fault>>

\* OpenRecord with the seeded fault of appending the record after the stop
\* test, so that the pass that stops leaves no record
OpenRecordAfterTest(new, value, step, test) ==
  /\ x1' = new
  /\ IF Stop(test)
     THEN /\ pc' = "converged"
          /\ result' = Tuple(new, step, iterations)
          /\ UNCHANGED <<x0, i, iterations>>
     ELSE /\ iterations' = Append(iterations, <<i + 1, new, value, step>>)
          /\ x0' = new
          /\ i' = i + 1
          /\ UNCHANGED <<pc, result>>
  /\ UNCHANGED <<args, a, b, c, x2, fault>>

\* iterations.append([i+1, x1, value, abs(x1 - x0)]) and what follows it in a
\* pass of newton_raphson, fixed_point_iteration and modified_secant; the pass
\* stops when abs(test) < tol
OpenRecord(new, value, step, test) ==
  LET log == Append(iterations, <<i + 1, new, value, step>>)
  IN  /\ x1' = new
      /\ iterations' = log
      /\ IF Stop(test)
         THEN /\ pc' = "converged"
              /\ result' = Tuple(new, step, log)
              /\ UNCHANGED <<x0, i>>
         ELSE /\ x0' = new
              /\ i' = i + 1
              /\ UNCHANGED <<pc, result>>
      /\ UNCHANGED <<args, a, b, c, x2, fault>>

\* newton_raphson and modified_secant record f(x1) and stop on abs(f(x1)) < tol
ResidualRecord(new, fx) == OpenRecord(new, fx, FAbs(FSub(new, x0)), fx)

ResidualStep(new) == ResidualRecord(new, f(new))

\* x1 = x0 - num / den
OpenDivide(num, den) ==
  IF DivRaises(num, den) THEN Raise("ZeroDivisionError")
  ELSE ResidualStep(FSub(x0, FDiv(num, den)))

\* one pass of the loop of newton_raphson: x1 = x0 - f(x0) / df(x0)
NewtonRaphsonPass ==
  /\ pc = "loop"
  /\ args.method = "newton_raphson"
  /\ i < max_iter
  /\ OpenDivide(f(x0), df(x0))

\* FixedPointRecord with the seeded fault of stopping on the residual
\* x1 - g(x1) instead of the step
FixedPointRecordResidual(new, step) ==
  OpenRecord(new, FSub(new, g(new)), FAbs(step), FSub(new, g(new)))

\* fixed_point_iteration records x1 - g(x1) and stops on abs(x1 - x0) < tol
FixedPointRecord(new, step) == OpenRecord(new, FSub(new, g(new)), FAbs(step), step)

FixedPointStep(new) == FixedPointRecord(new, FSub(new, x0))

\* one pass of the loop of fixed_point_iteration: x1 = g(x0)
FixedPointPass ==
  /\ pc = "loop"
  /\ args.method = "fixed_point"
  /\ i < max_iter
  /\ FixedPointStep(g(x0))

\* x1 = x0 - f(x0) * delta * x0 / (f(x0 + delta * x0) - f(x0))
ModifiedSecantPoint(fx0) ==
  OpenDivide(FMul(FMul(fx0, delta), x0),
             FSub(f(FAdd(x0, FMul(delta, x0))), fx0))

\* one pass of the loop of modified_secant
ModifiedSecantPass ==
  /\ pc = "loop"
  /\ args.method = "modified_secant"
  /\ i < max_iter
  /\ ModifiedSecantPoint(f(x0))

\* OpenReturn with the seeded fault of returning the last record's step as the
\* error
OpenReturnLastStep ==
  /\ pc = "loop"
  /\ i >= max_iter
  /\ IF x1 = None THEN Raise("UnboundLocalError")
     ELSE /\ pc' = "exhausted"
          /\ result' = Tuple(x1, iterations[Len(iterations)][4], iterations)
          /\ UNCHANGED <<args, a, b, c, x0, x1, x2, i, iterations, fault>>

\* return x1, abs(x1 - x0), iterations
OpenReturn ==
  /\ pc = "loop"
  /\ i >= max_iter
  /\ IF x1 = None THEN Raise("UnboundLocalError")
     ELSE /\ pc' = "exhausted"
          /\ result' = Tuple(x1, FAbs(FSub(x1, x0)), iterations)
          /\ UNCHANGED <<args, a, b, c, x0, x1, x2, i, iterations, fault>>

NewtonRaphsonReturn ==
  /\ args.method = "newton_raphson"
  /\ OpenReturn

FixedPointReturn ==
  /\ args.method = "fixed_point"
  /\ OpenReturn

ModifiedSecantReturn ==
  /\ args.method = "modified_secant"
  /\ OpenReturn

Next ==
  \/ BisectionCheck
  \/ BisectionPass
  \/ BisectionReturn
  \/ RegulaFalsiCheck
  \/ RegulaFalsiPass
  \/ RegulaFalsiReturn
  \/ SecantPass
  \/ SecantReturn
  \/ NewtonRaphsonPass
  \/ NewtonRaphsonReturn
  \/ FixedPointPass
  \/ FixedPointReturn
  \/ ModifiedSecantPass
  \/ ModifiedSecantReturn

Spec == Init /\ [][Next]_vars

(***************************************************************************)
(* Properties.                                                             *)
(***************************************************************************)
OpenMethods == {"secant", "newton_raphson", "fixed_point", "modified_secant"}
Running == pc \in {"call", "loop"}
Terminal == pc \in {"converged", "exhausted", "faulted", "rejected"}
Returned == result.kind = "tuple"
Passes == Len(iterations)
LastRecord == iterations[Len(iterations)]

\* f(a) * f(b) on the endpoints the caller passed
InitialProduct == FMul(f(args.p1), f(args.p2))

\* C1: in bisection and regula_falsi, when f(a) * f(b) >= 0 on the initial
\* endpoints (a product of exactly zero included) the call never gets past its
\* check: no pass runs, no record is produced, and what it returns is
\* None, None, None.
C1_NoBracketRejected ==
  (args.method \in Bracketing /\ FGe(InitialProduct, Zero)) =>
     /\ pc \in {"call", "rejected"}
     /\ iterations = <<>>
     /\ i = 0
     /\ result = (IF pc = "rejected" THEN NoneNoneNone ELSE Pending)

\* a call rejected with a root exactly at an endpoint
C1_RootAtEndpointRejected ==
  /\ args.method \in Bracketing
  /\ pc = "rejected"
  /\ IsZero(f(args.p1)) \/ IsZero(f(args.p2))
  /\ result = NoneNoneNone

\* C2: bisection and regula_falsi with max_iter >= 1 on a valid bracket, when
\* no pass meets the stop test, reach the return with c bound and return
\* (last c, the width of the bracket, the log), the log holding max_iter
\* records; the return does not fail.
C2_ExhaustedBracketPopulated ==
  (args.method \in Bracketing /\ max_iter >= 1) =>
     /\ (pc = "loop" /\ i >= max_iter) => (c # None /\ Passes = max_iter)
     /\ pc = "exhausted" =>
          /\ Passes = max_iter
          /\ result = Tuple(LastRecord[2], FAbs(FSub(b, a)), iterations)
          /\ result.root # None /\ result.error # None
     /\ fault # "UnboundLocalError"

\* bisection of x*x - 2 on [1, 2] with max_iter = 1: a log of one record
C2_OneRecordLog ==
  /\ args.method = "bisection"
  /\ args.f = "x*x - 2"
  /\ args.p1 = FromInt(1) /\ args.p2 = FromInt(2)
  /\ max_iter = 1
  /\ pc = "exhausted"
  /\ Returned /\ Len(result.log) = 1

\* C3: in all six methods the log holds one record per pass performed (i
\* passes went on, plus the one that stopped), numbered 1, 2, ... and at most
\* max_iter of them; a returned result carries the whole log and its root is
\* the estimate of the last record.
C3_LogMatchesPasses ==
  /\ Passes = (IF pc = "converged" THEN i + 1 ELSE i)
  /\ Passes <= max_iter
  /\ \A k \in 1..Passes : iterations[k][1] = k
  /\ Returned =>
       /\ result.log = iterations
       /\ Passes >= 1
       /\ LastRecord[2] = result.root

\* a result of secant returned from its second pass
C3_SecantTwoPasses ==
  /\ args.method = "secant"
  /\ pc = "converged"
  /\ Returned /\ Len(result.log) = 2

\* the denominator of the update of the pass about to run
Denominator ==
  CASE args.method = "secant" -> FSub(f(x1), f(x0))
    [] args.method = "newton_raphson" -> df(x0)
    [] args.method = "modified_secant" ->
         FSub(f(FAdd(x0, FMul(delta, x0))), f(x0))

ZeroDenominatorPass ==
  /\ args.method \in {"secant", "newton_raphson", "modified_secant"}
  /\ pc = "loop"
  /\ i < max_iter
  /\ IsZero(Denominator)

\* C4: in secant, newton_raphson and modified_secant a pass whose denominator
\* is zero ends the call with a division-by-zero fault: no record is appended
\* and nothing is returned.
C4_ZeroDenominatorFaults ==
  [][ZeroDenominatorPass =>
       /\ pc' = "faulted"
       /\ fault' = "ZeroDivisionError"
       /\ iterations' = iterations
       /\ result' = Pending]_vars

\* a record of bisection that was not the one the call stopped on
PassWentOn(k) == k < Passes \/ pc # "converged"

\* 2^k as a float
TwoTo(k) == [c |-> "fin", s |-> 0, m |-> <<1>>, e |-> k, np |-> FALSE]

\* abs(b - a) on the endpoints the caller passed
InitialWidth == FAbs(FSub(args.p2, args.p1))

\* the width recorded by pass k + 1 is exactly half the one recorded by pass k
HalvedExactly(k) == FEq(FMul(TwoTo(1), iterations[k + 1][4]), iterations[k][4])

\* abs(f(c)) of record k is below half the width the record carries, as it is
\* when f does not grow faster than the distance to its root
ResidualBelowHalfWidth(k) ==
  FLt(FAbs(iterations[k][3]), FMul(TwoTo(-1), iterations[k][4]))

\* C5 as stated: bisection converges within ceil(log2((b - a) / tol)) passes,
\* that is, a pass k that goes on has k < ceil(log2((b - a) / tol)), which is
\* tol * 2^k < b - a.
C5_ConvergesWithinLogBound ==
  args.method = "bisection" =>
    \A k \in 1..Passes :
      PassWentOn(k) => FLt(FMul(tol, TwoTo(k)), InitialWidth)

\* C5, amended: the bound holds of the passes up to which the widths halved
\* exactly and abs(f(c)) stayed below half the recorded width; the stop test
\* is on abs(f(c)), not on the width, so nothing bounds the other runs but
\* max_iter.
C5_LogBoundWhenResidualSmall ==
  args.method = "bisection" =>
    \A k \in 1..Passes :
      (/\ PassWentOn(k)
       /\ ResidualBelowHalfWidth(k)
       /\ \A j \in 1..(k - 1) : HalvedExactly(j))
        => FLt(FMul(tol, TwoTo(k)), InitialWidth)

\* a bisection that went on after a first pass with a small residual and
\* stopped at its second
C5_SecondPassConverges ==
  /\ args.method = "bisection"
  /\ pc = "converged"
  /\ Passes = 2
  /\ ResidualBelowHalfWidth(1)
  /\ HalvedExactly(1)

\* max(abs(a), abs(b)) on the endpoints the caller passed
InitialMagnitude ==
  IF FLt(FAbs(args.p1), FAbs(args.p2)) THEN FAbs(args.p2) ELSE FAbs(args.p1)

\* twice the width recorded by pass k + 1 less the width recorded by pass k
HalvingDefect(k) ==
  FAbs(FSub(FMul(TwoTo(1), iterations[k + 1][4]), iterations[k][4]))

\* C6 as stated: in bisection every recorded width is exactly half the width
\* recorded by the pass before.
C6_WidthExactlyHalved ==
  args.method = "bisection" => \A k \in 1..(Passes - 1) : HalvedExactly(k)

\* C6, amended: every recorded width is half the width recorded by the pass
\* before up to the rounding of a + b, of the midpoint's distance to the
\* endpoint and of b - a: the two differ by at most 2^-50 * max(abs(a), abs(b))
\* of the initial endpoints.
C6_WidthHalvedUpToRounding ==
  args.method = "bisection" =>
    \A k \in 1..(Passes - 1) :
      FLe(HalvingDefect(k), FMul(TwoTo(-49), InitialMagnitude))

\* a bisection whose second recorded width is not exactly half its first
C6_RoundedHalving ==
  /\ args.method = "bisection"
  /\ Passes >= 2
  /\ ~HalvedExactly(1)

\* the stop test of the method on record k: abs(f(estimate)) < tol, and for
\* fixed_point_iteration the step abs(x1 - x0) < tol
StopTestMet(k) ==
  IF args.method = "fixed_point" THEN FLt(iterations[k][4], tol)
  ELSE FLt(FAbs(iterations[k][3]), tol)

C7_Safe ==
  /\ pc \in {"call", "loop", "converged", "exhausted", "faulted", "rejected"}
  /\ pc = "call" => (args.method \in Bracketing /\ Passes = 0)
  /\ Passes <= max_iter
  /\ pc = "converged" => (Returned /\ StopTestMet(Passes))
  /\ pc = "exhausted" => (Returned /\ Passes = max_iter /\ result.root = LastRecord[2])
  /\ pc = "faulted" => (fault = "ZeroDivisionError" /\ ~Returned)
  /\ pc = "rejected" => (args.method \in Bracketing /\ Passes = 0 /\ ~Returned)

\* the steps a call has left at most: its check, max_iter - i passes, its return
StepsLeft ==
  CASE pc = "call" -> max_iter + 2
    [] pc = "loop" -> max_iter - i + 1
    [] OTHER -> 0

C7_Step ==
  /\ Running
  /\ pc' = "rejected" => (pc = "call" /\ Passes = 0)
  /\ pc = "loop" => pc' # "call"
  /\ pc' = "loop" /\ pc = "loop" => Len(iterations') = Passes + 1
  /\ StepsLeft' < StepsLeft
  /\ StepsLeft' >= 0

\* C7: a call with max_iter >= 1 is running (at its check, or in its loop)
\* until it ends converged, exhausted after max_iter passes, faulted by a
\* division by zero or, from the check of bisection and regula_falsi only and
\* before any pass, rejected; every step brings the end nearer, a pass being
\* one of at most max_iter, and once ended nothing changes.
C7_StateMachine ==
  /\ Running /\ Passes = 0
  /\ [](max_iter >= 1 => C7_Safe)
  /\ [][C7_Step]_vars

\* a call that ran all of its max_iter >= 2 passes without stopping
C7_ExhaustedAfterAllPasses ==
  /\ max_iter >= 2
  /\ pc = "exhausted"
  /\ Passes = max_iter

\* C8: a returned log ends at the first pass that meets the method's stop
\* test: no record before the last meets it, and the last one meets it when
\* fewer than max_iter passes ran.
C8_StopsAtFirstPassMeetingTest ==
  Returned =>
    /\ \A k \in 1..(Passes - 1) : ~StopTestMet(k)
    /\ Passes < max_iter => StopTestMet(Passes)

\* a fixed_point_iteration that stopped on its step at its second pass while
\* the residual x1 - g(x1) of its first record was already below tol
C8_FixedPointStopsOnStep ==
  /\ args.method = "fixed_point"
  /\ pc = "converged"
  /\ Passes = 2
  /\ max_iter > 2
  /\ FLt(FAbs(iterations[1][3]), tol)

\* C9: in bisection and regula_falsi, once the check has passed,
\* f(a) * f(b) < 0 holds at the start of every pass and after every
\* replacement of an endpoint, the interval lies inside the one the caller
\* passed, and the denominator f(b) - f(a) of regula_falsi is not zero.
C9_BracketMaintained ==
  (args.method \in Bracketing /\ pc = "loop") =>
     /\ FLt(FMul(f(a), f(b)), Zero)
     /\ FLe(args.p1, a) /\ FLe(b, args.p2)
     /\ args.method = "regula_falsi" => ~IsZero(FSub(f(b), f(a)))

\* the error of an exhausted bisection is exactly half the last recorded width
ErrorHalvedExactly == FEq(FMul(TwoTo(1), result.error), LastRecord[4])

\* twice the error of an exhausted bisection less the last recorded width
ErrorHalvingDefect == FAbs(FSub(FMul(TwoTo(1), result.error), LastRecord[4]))

\* C10 as stated: a converged result carries the error of its last record; an
\* exhausted result of secant, newton_raphson, fixed_point_iteration and
\* modified_secant carries an error of exactly 0, and one of bisection half
\* the width of its last record.
C10_ExhaustedErrorZeroOrHalf ==
  /\ pc = "converged" => result.error = LastRecord[4]
  /\ (pc = "exhausted" /\ args.method \in OpenMethods) => IsZero(result.error)
  /\ (pc = "exhausted" /\ args.method = "bisection") => ErrorHalvedExactly

\* C10, amended: a converged result carries the error of its last record; an
\* exhausted result of the four open methods carries abs(x - x) of its last
\* estimate x, which is 0 when x is finite and NaN when x is infinite or NaN;
\* one of bisection carries half the width of its last record up to rounding,
\* within 2^-50 * max(abs(a), abs(b)) of the initial endpoints.
C10_ExhaustedErrorOfLastEstimate ==
  /\ pc = "converged" => result.error = LastRecord[4]
  /\ (pc = "exhausted" /\ args.method \in OpenMethods) =>
       /\ result.root = LastRecord[2]
       /\ IF IsFinite(result.root) THEN IsZero(result.error)
          ELSE IsNaN(result.error)
  /\ (pc = "exhausted" /\ args.method = "bisection") =>
       FLe(ErrorHalvingDefect, FMul(TwoTo(-49), InitialMagnitude))

\* a fixed_point_iteration that overflowed: exhausted on an infinite estimate
\* with an error of NaN
C10_OverflowedEstimate ==
  /\ args.method = "fixed_point"
  /\ pc = "exhausted"
  /\ IsInf(result.root)
  /\ IsNaN(result.error)
====
